---- MODULE Spec2Model ----
(***************************************************************************)
(* Model of main.py: the capture thread (camera_worker), the detection     *)
(* thread (detection_worker with check_text_stability), the speech thread  *)
(* (TTSEngine._speech_worker), the queues between them, the Flask thread   *)
(* with its video_feed generators, and main's startup and shutdown.        *)
(*                                                                         *)
(* A Python str is a sequence of one-character strings, so that len,       *)
(* strip, split and join are computed as the code computes them.           *)
(***************************************************************************)
EXTENDS Integers, Sequences, FiniteSets, TLC

\* ---------------------------------------------------------------- strings
EMPTY == <<>>

NO_TEXT == <<"N", "o", " ", "t", "e", "x", "t", " ", "d", "e", "t", "e", "c", "t", "e", "d">>
NO_OBJECTS == <<"N", "o", " ", "o", "b", "j", "e", "c", "t", "s", " ", "d", "e", "t", "e", "c", "t", "e", "d">>
PAUSED == <<"[", "P", "a", "u", "s", "e", "d", " ", "d", "u", "r", "i", "n", "g", " ", "t", "e", "x", "t", " ", "r", "e", "a", "d", "i", "n", "g", "]">>
INITIALIZING == <<"S", "y", "s", "t", "e", "m", " ", "i", "n", "i", "t", "i", "a", "l", "i", "z", "i", "n", "g", ".", ".", ".">>

\* texts the OCR capability can return and captions the captioner can return
STOP == <<"S", "T", "O", "P">>
LONG_TEXT == <<"1", " ", "2", " ", "3", " ", "4", " ", "5", " ", "6", " ", "7", " ", "8", " ", "9", " ", "0", " ", "1", " ", "2", " ", "3", " ", "4", " ", "5", " ", "6">>
RED_CAR == <<"a", " ", "r", "e", "d", " ", "c", "a", "r">>
OX == <<"o", "x">>
CAPTION_20 == <<"1", " ", "2", " ", "3", " ", "4", " ", "5", " ", "6", " ", "7", " ", "8", " ", "9", " ", "0", " ", "1", " ", "2", " ", "3", " ", "4", " ", "5", " ", "6", " ", "7", " ", "8", " ", "9", " ", "0">>

\* the whitespace characters of str.strip(), str.split() and the regex \s
WHITESPACE == {" ", "\t", "\n"}

IsSpace(c) == c \in WHITESPACE

RECURSIVE lstrip(_)
lstrip(s) == IF s # EMPTY /\ IsSpace(Head(s)) THEN lstrip(Tail(s)) ELSE s

RECURSIVE rstrip(_)
rstrip(s) ==
  IF s # EMPTY /\ IsSpace(s[Len(s)]) THEN rstrip(SubSeq(s, 1, Len(s) - 1)) ELSE s

\* str.strip()
strip(s) == rstrip(lstrip(s))

\* str.split(): the maximal runs of non-whitespace characters, in order
RECURSIVE SplitFrom(_, _, _)
SplitFrom(s, cur, acc) ==
  IF s = EMPTY
    THEN IF cur = EMPTY THEN acc ELSE Append(acc, cur)
    ELSE IF IsSpace(Head(s))
           THEN SplitFrom(Tail(s), EMPTY, IF cur = EMPTY THEN acc ELSE Append(acc, cur))
           ELSE SplitFrom(Tail(s), Append(cur, Head(s)), acc)

split(s) == SplitFrom(s, EMPTY, <<>>)

\* ' '.join(words)
RECURSIVE join(_)
join(words) ==
  IF words = <<>> THEN EMPTY
  ELSE IF Len(words) = 1 THEN words[1]
  ELSE words[1] \o <<" ">> \o join(Tail(words))

\* words[:n]
Take(words, n) == SubSeq(words, 1, IF Len(words) < n THEN Len(words) ELSE n)

\* ---------------------------------------------------------- configuration
OCR_STABILITY_FRAMES == 2
MAX_AUDIO_LENGTH == 15
FRAME_QUEUE_MAXSIZE == 2
\* queue.Queue() without maxsize: 0 means unbounded
SPEECH_QUEUE_MAXSIZE == 0

\* longest observation history followed by the window specification
MaxObs == 5
\* frames are told apart by the capture count (line 404) modulo FrameIds
FrameIds == 2
\* number of /video_feed clients that may connect
NumClients == 2
Clients == 1..NumClients
\* longest raw string given to clean_ocr_text
MaxCleanLen == 4
\* detection cycles counted by the history variable cycles
MaxCycles == 2

\* line 49: frame_lock = threading.Lock(), not held
FREE == 0

\* ------------------------------------------------------------ queue.Queue
\* variant: full only above the capacity
QueueFull_off_by_one(q, maxsize) == maxsize > 0 /\ Len(q) > maxsize

\* Queue.full()
QueueFull(q, maxsize) == maxsize > 0 /\ Len(q) >= maxsize

\* Queue.empty()
QueueEmpty(q) == Len(q) = 0

\* a blocking Queue.put(item) proceeds only while the queue is not full
QueueCanPut(q, maxsize) == ~QueueFull(q, maxsize)

\* ------------------------------------------------- external capabilities
\* The OCR engine and the captioner are black boxes: what they return for a
\* frame is chosen when they are called.  detect_text returns "" or a cleaned
\* text of at least 3 characters (lines 216-219), detect_objects returns a
\* stripped caption or "" (lines 274, 277).
OcrTexts == {EMPTY, STOP, LONG_TEXT}

\* What the camera is pointed at during a run: the texts and the captions
\* the two capabilities return for its frames.
Scenes == { [texts |-> {EMPTY, STOP}, captions |-> {EMPTY, RED_CAR}],
            [texts |-> {EMPTY, LONG_TEXT}, captions |-> {EMPTY, OX}],
            [texts |-> {EMPTY}, captions |-> {EMPTY, CAPTION_20}] }

\* ------------------------------------------------------ pure functions
\* variant: only the first entry of a full window is looked at
check_text_stability_first_only(buffer, detected) ==
  LET appended == Append(buffer, detected)
      kept == IF Len(appended) > OCR_STABILITY_FRAMES THEN Tail(appended) ELSE appended
      result == IF Len(kept) < OCR_STABILITY_FRAMES THEN EMPTY ELSE kept[1]
  IN [buffer |-> kept, result |-> result]

\* variant: the newest entry is evicted instead of the oldest
check_text_stability_pop_last(buffer, detected) ==
  LET appended == Append(buffer, detected)
      kept == IF Len(appended) > OCR_STABILITY_FRAMES
                THEN SubSeq(appended, 1, OCR_STABILITY_FRAMES) ELSE appended
      result == IF Len(kept) < OCR_STABILITY_FRAMES THEN EMPTY
                ELSE IF kept[1] = EMPTY THEN EMPTY
                ELSE IF \E i \in 2..Len(kept) : kept[i] # kept[1] THEN EMPTY
                ELSE kept[1]
  IN [buffer |-> kept, result |-> result]

\* check_text_stability: the window after the call and the returned text
check_text_stability(buffer, detected) ==
  LET appended == Append(buffer, detected)
      kept == IF Len(appended) > OCR_STABILITY_FRAMES THEN Tail(appended) ELSE appended
      result == IF Len(kept) < OCR_STABILITY_FRAMES THEN EMPTY
                ELSE IF kept[1] = EMPTY THEN EMPTY
                ELSE IF \E i \in 2..Len(kept) : kept[i] # kept[1] THEN EMPTY
                ELSE kept[1]
  IN [buffer |-> kept, result |-> result]

\* ---- clean_ocr_text (lines 145-167)
LOWERCASE == <<"a", "b", "c", "d", "e", "f", "g", "h", "i", "j", "k", "l", "m",
               "n", "o", "p", "q", "r", "s", "t", "u", "v", "w", "x", "y", "z">>
UPPERCASE == <<"A", "B", "C", "D", "E", "F", "G", "H", "I", "J", "K", "L", "M",
               "N", "O", "P", "Q", "R", "S", "T", "U", "V", "W", "X", "Y", "Z">>
DIGITS == {"0", "1", "2", "3", "4", "5", "6", "7", "8", "9"}

\* regex \w
IsWordChar(c) ==
  \/ c = "_" \/ c \in DIGITS
  \/ \E i \in 1..Len(LOWERCASE) : c = LOWERCASE[i] \/ c = UPPERCASE[i]

\* line 156: the punctuation the character class keeps
KEPT_PUNCTUATION == {".", ",", "!", "?", "'", "-"}

IsKept(c) == IsWordChar(c) \/ IsSpace(c) \/ c \in KEPT_PUNCTUATION

\* line 156: re.sub(r'[^\w\s.,!?\'\-]', '', text)
RemoveSpecial(s) == SelectSeq(s, IsKept)

\* line 159: re.sub(r'\s+', ' ', text)
RECURSIVE CollapseSpace(_)
CollapseSpace(s) ==
  IF s = EMPTY THEN EMPTY
  ELSE IF IsSpace(Head(s)) THEN <<" ">> \o CollapseSpace(lstrip(Tail(s)))
  ELSE <<Head(s)>> \o CollapseSpace(Tail(s))

\* str.lower()
lower(w) ==
  [k \in 1..Len(w) |->
     IF \E i \in 1..Len(UPPERCASE) : w[k] = UPPERCASE[i]
       THEN LOWERCASE[CHOOSE i \in 1..Len(UPPERCASE) : w[k] = UPPERCASE[i]]
       ELSE w[k]]

\* str.isdigit()
isdigit(w) == w # EMPTY /\ \A k \in 1..Len(w) : w[k] \in DIGITS

\* line 163: the condition of the list comprehension
KeepWord(w) == Len(w) > 1 \/ lower(w) \in {<<"a">>, <<"i">>} \/ isdigit(w)

\* variant: single-character words are filtered before the special
\* characters are removed
clean_ocr_text_filter_first(text) ==
  IF text = EMPTY THEN EMPTY
  ELSE RemoveSpecial(strip(join(SelectSeq(split(CollapseSpace(text)), KeepWord))))

\* lines 152-167
clean_ocr_text(text) ==
  IF text = EMPTY THEN EMPTY
  ELSE strip(join(SelectSeq(split(CollapseSpace(RemoveSpecial(text))), KeepWord)))

\* raw OCR strings given to clean_ocr_text: every string of at most
\* MaxCleanLen characters over an alphabet with a kept single letter, a
\* dropped one, an upper-case one, a digit, two kinds of whitespace, a
\* removed character and a kept punctuation mark
CleanAlphabet == {"a", "b", "I", "7", " ", "\t", "#", "-"}
CleanInputs == UNION {[1..n -> CleanAlphabet] : n \in 0..MaxCleanLen}

\* _speech_worker line 87: the dequeued entry is skipped as too short
WorkerTooShort(text) == text = EMPTY \/ Len(strip(text)) < 2

\* variant: one word more than MAX_AUDIO_LENGTH is kept
Truncate_off_by_one(text) ==
  LET words == split(text)
  IN IF Len(words) > MAX_AUDIO_LENGTH + 1
       THEN join(Take(words, MAX_AUDIO_LENGTH + 1)) ELSE text

\* _speech_worker lines 95-97: the string handed to speaker.Speak
Truncate(text) ==
  LET words == split(text)
  IN IF Len(words) > MAX_AUDIO_LENGTH THEN join(Take(words, MAX_AUDIO_LENGTH)) ELSE text

\* ------------------------------------------------------------------ state
VARIABLES
  scene,              \* environment: what the camera is pointed at
  running,            \* global running flag (line 34)
  tts_running,        \* TTSEngine.running (line 63)
  mpc,                \* position of main()
  frame_queue,        \* line 52
  speech_queue,       \* TTSEngine.speech_queue (line 64)
  cpc,                \* camera_worker: position
  frame_count,        \* camera_worker: line 395, modulo FrameIds
  frame_lock,         \* line 49: FREE, or the video_feed generator holding it
  last_frame_jpg,     \* line 48: <<>> for None, else the encoded frame
  fpc,                \* run_flask thread: position
  gpc,                \* video_feed generators: position of each
  dpc,                \* detection_worker: position
  detected_text, stable_text, detected_objects, output,  \* its locals
  ocr_text_buffer, last_spoken_text, ocr_mode_active,    \* lines 43-45
  current_text, current_objects, current_audio,          \* lines 38-40
  wpc, w_text,        \* _speech_worker: position, local text
  last_spoken,        \* TTSEngine.last_spoken (line 66)
  w_request,          \* history: the request as it was dequeued
  cyc,                \* history: what the running detection cycle has done
  prev,               \* history: candidate of the previous completed cycle
  announced,          \* history: captions enqueued by completed cycles
  cycles,             \* history: completed detection cycles, up to MaxCycles
  first,              \* history: what the first cycle did and its output, kept
                      \* during the second
  pending,            \* history: puts since the last dequeue, last text put
  post,               \* history: the first caption after leaving OCR mode
  obs                 \* history: observations fed to the stability window

mainVars == <<scene, running, tts_running, mpc>>
camVars == <<cpc, frame_count, frame_lock, last_frame_jpg>>
flaskVars == <<fpc, gpc>>
detLocals == <<detected_text, stable_text, detected_objects, output>>
detGlobals == <<ocr_text_buffer, last_spoken_text, ocr_mode_active,
                current_text, current_objects, current_audio>>
detHist == <<cyc, prev, announced, cycles, first>>
workerVars == <<wpc, w_text, last_spoken, w_request>>

vars == <<scene, running, tts_running, mpc, frame_queue, speech_queue, cpc, frame_count,
          dpc, detected_text, stable_text, detected_objects, output,
          ocr_text_buffer, last_spoken_text, ocr_mode_active, current_text,
          current_objects, current_audio, wpc, w_text, last_spoken, w_request,
          cyc, prev, announced, cycles, first, pending, post, obs,
          frame_lock, last_frame_jpg, fpc, gpc, cycles, first>>

Min(a, b) == IF a < b THEN a ELSE b

NewCycle(mode0) ==
  [mode0 |-> mode0, reset |-> FALSE, objects |-> FALSE, spoke |-> FALSE, enq |-> FALSE]

\* the announcement candidate of a cycle: its stable text, else its caption
Candidate(stable, caption) ==
  IF stable # EMPTY THEN <<"text", stable>> ELSE <<"caption", caption>>

\* module-level state after import (lines 33-53, 126), before main() runs;
\* text is the string held by detected_text
InitState(text) ==
  /\ scene \in Scenes
  /\ running = TRUE
  /\ tts_running = TRUE
  /\ mpc = "init_tts"
  /\ frame_queue = <<>>
  /\ speech_queue = <<>>
  /\ cpc = "idle" /\ frame_count = 0
  /\ frame_lock = FREE
  /\ last_frame_jpg = <<>>
  /\ fpc = "idle"
  /\ gpc = [c \in Clients |-> "idle"]
  /\ dpc = "idle"
  /\ detected_text = text /\ stable_text = EMPTY
  /\ detected_objects = EMPTY /\ output = EMPTY
  /\ ocr_text_buffer = <<>>
  /\ last_spoken_text = EMPTY
  /\ ocr_mode_active = FALSE
  /\ current_text = EMPTY /\ current_objects = EMPTY
  /\ current_audio = INITIALIZING
  /\ wpc = "idle" /\ w_text = EMPTY
  /\ last_spoken = EMPTY
  /\ w_request = EMPTY
  /\ cycles = 0
  /\ first = <<NewCycle(FALSE), EMPTY>>
  /\ cyc = NewCycle(FALSE)
  /\ prev = <<"none", EMPTY>>
  /\ announced = {}
  /\ pending = [puts |-> 0, last |-> EMPTY]
  /\ post = [await |-> FALSE, carry |-> FALSE, queued |-> FALSE, taken |-> FALSE]
  /\ obs = <<>>

Init == InitState(EMPTY)

\* ------------------------------------------------------------------ main
\* lines 618-622: tts.initialize() starts the speech worker, returns True
InitTTS ==
  /\ mpc = "init_tts"
  /\ wpc' = "get"
  /\ mpc' = "init_ocr"
  /\ UNCHANGED <<scene, running, tts_running, frame_queue, speech_queue, camVars, flaskVars, dpc,
                 detLocals, detGlobals, detHist, w_text, last_spoken, w_request,
                 pending, post, obs>>

\* lines 624-634: init_ocr() / init_vision_model() succeed or main returns
InitModels ==
  /\ mpc \in {"init_ocr", "init_vision"}
  /\ \E ok \in BOOLEAN :
       mpc' = IF ~ok THEN "aborted"
              ELSE IF mpc = "init_ocr" THEN "init_vision" ELSE "start_threads"
  /\ UNCHANGED <<scene, running, tts_running, frame_queue, speech_queue, camVars, flaskVars, dpc,
                 detLocals, detGlobals, detHist, workerVars, pending, post, obs>>

\* lines 639-647: the camera, detection and Flask threads are started
StartThreads ==
  /\ mpc = "start_threads"
  /\ cpc' = "open"
  /\ dpc' = "get"
  /\ fpc' = "serving"
  /\ mpc' = "serving"
  /\ UNCHANGED <<scene, running, tts_running, frame_queue, speech_queue, frame_count,
                 frame_lock, last_frame_jpg, gpc,
                 detLocals, detGlobals, detHist, workerVars, pending, post, obs>>

\* lines 669-672: KeyboardInterrupt: running = False, then tts.stop()
Shutdown ==
  /\ \/ mpc = "serving" /\ running' = FALSE /\ mpc' = "stopping"
        /\ UNCHANGED tts_running
     \/ mpc = "stopping" /\ tts_running' = FALSE /\ mpc' = "stopped"
        /\ UNCHANGED running
  /\ UNCHANGED <<scene, frame_queue, speech_queue, camVars, flaskVars, dpc, detLocals,
                 detGlobals, detHist, workerVars, pending, post, obs>>

\* ---------------------------------------------------------- camera_worker
notCamera == <<mainVars, flaskVars, speech_queue, dpc, detLocals, detGlobals, detHist,
               workerVars, pending, post, obs>>

\* lines 387-394: the device opens, or the worker returns
C_open ==
  /\ cpc = "open"
  /\ \E opened \in BOOLEAN : cpc' = IF opened THEN "read" ELSE "failed"
  /\ UNCHANGED <<notCamera, frame_queue, frame_count, frame_lock, last_frame_jpg>>

\* variant: the put is attempted whatever the queue holds
AfterPublish_always_put == "put"

\* lines 411-412: if not frame_queue.full(): the put follows, else the
\* frame is dropped
AfterPublish == IF ~QueueFull(frame_queue, FRAME_QUEUE_MAXSIZE) THEN "put" ELSE "read"

\* lines 397-412: while running: a frame is read (or the read fails); with
\* frame_lock: the encoded frame is published and the lock released; or the
\* worker waits for frame_lock
C_read ==
  /\ cpc = "read"
  /\ IF ~running
       THEN cpc' = "done" /\ UNCHANGED <<frame_count, last_frame_jpg>>
       ELSE \/ /\ frame_count' = (frame_count + 1) % FrameIds
               /\ IF frame_lock = FREE
                    THEN last_frame_jpg' = <<frame_count'>> /\ cpc' = AfterPublish
                    ELSE cpc' = "lock" /\ UNCHANGED last_frame_jpg
            \/ cpc' = "read" /\ UNCHANGED <<frame_count, last_frame_jpg>>
  /\ UNCHANGED <<notCamera, frame_queue, frame_lock>>

\* lines 407-412: frame_lock is acquired after a wait
C_lock ==
  /\ cpc = "lock"
  /\ frame_lock = FREE
  /\ last_frame_jpg' = <<frame_count>>
  /\ cpc' = AfterPublish
  /\ UNCHANGED <<notCamera, frame_queue, frame_count, frame_lock>>

\* line 413: frame_queue.put(frame.copy()), a blocking put
C_put ==
  /\ cpc = "put"
  /\ QueueCanPut(frame_queue, FRAME_QUEUE_MAXSIZE)
  /\ frame_queue' = Append(frame_queue, frame_count)
  /\ cpc' = "read"
  /\ UNCHANGED <<notCamera, frame_count, frame_lock, last_frame_jpg>>

camera_worker == C_open \/ C_read \/ C_put

\* ------------------------------------------------------ detection_worker
notDetection == <<mainVars, flaskVars, camVars, workerVars, obs>>

\* lines 321-327: while running: frame_queue.get(timeout=1.0),
\* queue.Empty -> continue
D_get ==
  /\ dpc = "get"
  /\ IF ~running
       THEN dpc' = "done" /\ UNCHANGED frame_queue
       ELSE IF ~QueueEmpty(frame_queue)
              THEN frame_queue' = Tail(frame_queue) /\ dpc' = "ocr"
              ELSE dpc' = "get" /\ UNCHANGED frame_queue
  /\ UNCHANGED <<notDetection, speech_queue, detLocals, detGlobals, detHist,
                 pending, post>>

\* lines 333-342: OCR, stability check, display of the raw text, branch
D_ocr ==
  /\ dpc = "ocr"
  /\ \E text \in scene.texts :
       LET r == check_text_stability(ocr_text_buffer, text)
       IN /\ detected_text' = text
          /\ ocr_text_buffer' = r.buffer
          /\ stable_text' = r.result
          /\ current_text' = IF text # EMPTY THEN text ELSE NO_TEXT
          /\ dpc' = IF r.result # EMPTY THEN "text_mode" ELSE "object_mode"
  /\ cyc' = NewCycle(ocr_mode_active)
  /\ UNCHANGED <<notDetection, frame_queue, speech_queue, detected_objects,
                 output, last_spoken_text, ocr_mode_active, current_objects,
                 current_audio, prev, announced, cycles, first, pending, post>>

\* variant: a stable text is never announced
TextIsNew_never(stable, last) == FALSE

\* line 347: the stable text is announced only if it differs
TextIsNew(stable, last) == stable # last

\* TTSEngine.speak line 113: the request is accepted
SpeakAccepts(text) == text # EMPTY /\ Len(strip(text)) > 2

\* lines 344-353: enter OCR mode; if the stable text is new, record it and
\* call tts.speak, which drops a request that is too short (line 113)
D_text_mode ==
  /\ dpc = "text_mode"
  /\ ocr_mode_active' = TRUE
  /\ post' = [post EXCEPT !.await = FALSE]
  /\ IF TextIsNew(stable_text, last_spoken_text)
       THEN /\ output' = stable_text
            /\ current_audio' = stable_text
            /\ last_spoken_text' = stable_text
            /\ cyc' = [cyc EXCEPT !.spoke = TRUE]
            /\ dpc' = IF SpeakAccepts(stable_text) THEN "speak_empty" ELSE "sleep"
       ELSE /\ dpc' = "sleep"
            /\ UNCHANGED <<output, current_audio, last_spoken_text, cyc>>
  /\ UNCHANGED <<notDetection, frame_queue, speech_queue, detected_text,
                 stable_text, detected_objects, ocr_text_buffer, current_text,
                 current_objects, prev, announced, cycles, first, pending>>

\* variant: the mode flag is not cleared
ExitOcrMode_keep_flag(active, last) ==
  IF active THEN [active |-> active, last |-> EMPTY]
            ELSE [active |-> active, last |-> last]

\* variant: the last-spoken string is not reset
ExitOcrMode_keep_last(active, last) == [active |-> FALSE, last |-> last]

\* lines 360-362: the mode flag and the last-spoken string after leaving
ExitOcrMode(active, last) ==
  IF active THEN [active |-> FALSE, last |-> EMPTY]
            ELSE [active |-> active, last |-> last]

\* variant: no comparison with the last-spoken string
CaptionIsNew_no_dedup(caption, last) == caption # EMPTY

\* line 369: the caption is announced only if non-empty and different
CaptionIsNew(caption, last) == caption # EMPTY /\ caption # last

\* lines 360-362: leave OCR mode
D_object_mode ==
  /\ dpc = "object_mode"
  /\ LET e == ExitOcrMode(ocr_mode_active, last_spoken_text)
     IN /\ ocr_mode_active' = e.active
        /\ last_spoken_text' = e.last
        /\ cyc' = [cyc EXCEPT !.reset = ocr_mode_active /\ e.last = EMPTY]
  /\ post' = [post EXCEPT !.await = @ \/ ocr_mode_active]
  /\ dpc' = "detect_objects"
  /\ UNCHANGED <<notDetection, frame_queue, speech_queue, detLocals,
                 ocr_text_buffer, current_text, current_objects, current_audio,
                 prev, announced, cycles, first, pending>>

\* lines 365-374: caption the frame; if the caption is new, record it and
\* call tts.speak (line 113 as above)
D_detect_objects ==
  /\ dpc = "detect_objects"
  /\ \E caption \in scene.captions :
       LET new == CaptionIsNew(caption, last_spoken_text)
       IN /\ detected_objects' = caption
          /\ current_objects' = IF caption # EMPTY THEN caption ELSE NO_OBJECTS
          /\ cyc' = [cyc EXCEPT !.objects = TRUE, !.spoke = new]
          /\ post' = IF caption # EMPTY
                       THEN [post EXCEPT !.await = FALSE,
                               !.carry = post.await /\ new /\ SpeakAccepts(caption)]
                       ELSE post
          /\ IF new
               THEN /\ output' = caption
                    /\ current_audio' = caption
                    /\ last_spoken_text' = caption
                    /\ dpc' = IF SpeakAccepts(caption) THEN "speak_empty" ELSE "sleep"
               ELSE /\ dpc' = "sleep"
                    /\ UNCHANGED <<output, current_audio, last_spoken_text>>
  /\ UNCHANGED <<notDetection, frame_queue, speech_queue, detected_text,
                 stable_text, ocr_text_buffer, ocr_mode_active, current_text,
                 prev, announced, cycles, first, pending>>

\* variant: the objects display is not paused after a text cycle
D_sleep_no_pause ==
  /\ dpc = "sleep"
  /\ dpc' = "get"
  /\ current_objects' = current_objects
  /\ prev' = Candidate(stable_text, detected_objects)
  /\ announced' = IF stable_text = EMPTY /\ cyc.enq
                    THEN announced \cup {output} ELSE announced
  /\ cycles' = Min(cycles + 1, MaxCycles)
  /\ first' = IF cycles = 0 THEN <<cyc, output>> ELSE <<NewCycle(FALSE), EMPTY>>
  /\ cyc' = NewCycle(FALSE)
  /\ detected_text' = EMPTY
  /\ stable_text' = EMPTY
  /\ detected_objects' = EMPTY
  /\ UNCHANGED <<notDetection, frame_queue, speech_queue, output,
                 ocr_text_buffer, last_spoken_text, ocr_mode_active, current_text,
                 current_audio, pending, post>>

\* lines 356, 377: the paused display after a text cycle; the cycle ends
D_sleep ==
  /\ dpc = "sleep"
  /\ dpc' = "get"
  /\ current_objects' = IF stable_text # EMPTY THEN PAUSED ELSE current_objects
  /\ prev' = Candidate(stable_text, detected_objects)
  /\ announced' = IF stable_text = EMPTY /\ cyc.enq
                    THEN announced \cup {output} ELSE announced
  /\ cycles' = Min(cycles + 1, MaxCycles)
  /\ first' = IF cycles = 0 THEN <<cyc, output>> ELSE <<NewCycle(FALSE), EMPTY>>
  /\ cyc' = NewCycle(FALSE)
  /\ detected_text' = EMPTY
  /\ stable_text' = EMPTY
  /\ detected_objects' = EMPTY
  /\ UNCHANGED <<notDetection, frame_queue, speech_queue, output,
                 ocr_text_buffer, last_spoken_text, ocr_mode_active, current_text,
                 current_audio, pending, post>>

detection_worker ==
  D_get \/ D_ocr \/ D_text_mode \/ D_object_mode \/ D_detect_objects \/ D_sleep

\* --------------------------------------------------------- TTSEngine.speak
\* (runs on the detection thread, called at lines 353 and 374)
\* variant: the pending request is not cleared before the put
S_empty_no_drain ==
  /\ dpc = "speak_empty"
  /\ dpc' = "speak_put"
  /\ UNCHANGED <<notDetection, frame_queue, speech_queue, detLocals, detGlobals,
                 detHist, pending, post>>

\* line 115: while not self.speech_queue.empty()
S_empty ==
  /\ dpc = "speak_empty"
  /\ dpc' = IF ~QueueEmpty(speech_queue) THEN "speak_get" ELSE "speak_put"
  /\ UNCHANGED <<notDetection, frame_queue, speech_queue, detLocals, detGlobals,
                 detHist, pending, post>>

\* variant: the drain loop breaks without removing the pending request
S_get_nowait_break ==
  /\ dpc = "speak_get"
  /\ dpc' = "speak_put"
  /\ UNCHANGED <<notDetection, frame_queue, speech_queue, detLocals, detGlobals,
                 detHist, pending, post>>

\* lines 116-119: get_nowait(); queue.Empty -> break
S_get_nowait ==
  /\ dpc = "speak_get"
  /\ IF speech_queue # <<>>
       THEN /\ speech_queue' = Tail(speech_queue)
            /\ post' = [post EXCEPT !.queued = FALSE]
            /\ dpc' = "speak_empty"
       ELSE /\ dpc' = "speak_put"
            /\ UNCHANGED <<speech_queue, post>>
  /\ UNCHANGED <<notDetection, frame_queue, detLocals, detGlobals, detHist, pending>>

\* line 120: self.speech_queue.put(text)
S_put ==
  /\ dpc = "speak_put"
  /\ QueueCanPut(speech_queue, SPEECH_QUEUE_MAXSIZE)
  /\ speech_queue' = Append(speech_queue, output)
  /\ cyc' = [cyc EXCEPT !.enq = TRUE]
  /\ pending' = [puts |-> Min(pending.puts + 1, 2), last |-> output]
  /\ post' = [post EXCEPT !.queued = post.carry, !.carry = FALSE]
  /\ dpc' = "sleep"
  /\ UNCHANGED <<notDetection, frame_queue, detLocals, detGlobals, prev, announced,
                 cycles, first>>

speak == S_empty \/ S_get_nowait \/ S_put

\* ------------------------------------------------ TTSEngine._speech_worker
notWorker == <<mainVars, flaskVars, camVars, frame_queue, dpc, detLocals, detGlobals, detHist, obs>>

\* lines 83-85, 102-103: while self.running: speech_queue.get(timeout=0.5),
\* queue.Empty -> continue
W_get ==
  /\ wpc = "get"
  /\ IF ~tts_running
       THEN wpc' = "done" /\ UNCHANGED <<w_text, w_request, speech_queue, pending, post>>
       ELSE IF ~QueueEmpty(speech_queue)
              THEN /\ w_text' = Head(speech_queue)
                   /\ w_request' = Head(speech_queue)
                   /\ speech_queue' = Tail(speech_queue)
                   /\ pending' = [puts |-> 0, last |-> EMPTY]
                   /\ post' = [post EXCEPT !.queued = FALSE, !.taken = post.queued]
                   /\ wpc' = "check"
              ELSE /\ wpc' = "get"
                   /\ UNCHANGED <<w_text, w_request, speech_queue, pending, post>>
  /\ UNCHANGED <<notWorker, last_spoken>>

\* line 91: the dequeued text repeats the last spoken one
WorkerRepeats(text, last) == text = last

\* lines 87-97: skip short or repeated text, truncate the rest
W_check ==
  /\ wpc = "check"
  /\ IF WorkerTooShort(w_text) \/ WorkerRepeats(w_text, last_spoken)
       THEN /\ wpc' = "get"
            /\ w_text' = EMPTY
            /\ w_request' = EMPTY
            /\ post' = [post EXCEPT !.taken = FALSE]
       ELSE /\ w_text' = Truncate(w_text)
            /\ wpc' = "speak"
            /\ UNCHANGED <<w_request, post>>
  /\ UNCHANGED <<notWorker, speech_queue, last_spoken, pending>>

\* variant: an exception of speaker.Speak ends the worker
W_speak_raise_exits ==
  /\ wpc = "speak"
  /\ \/ last_spoken' = w_text /\ wpc' = "get"
     \/ wpc' = "done" /\ UNCHANGED last_spoken
  /\ w_text' = EMPTY
  /\ w_request' = EMPTY
  /\ post' = [post EXCEPT !.taken = FALSE]
  /\ UNCHANGED <<notWorker, speech_queue, pending>>

\* lines 99-100, 104-106: speaker.Speak(text, 1) returns, or raises
W_speak ==
  /\ wpc = "speak"
  /\ \/ last_spoken' = w_text
     \/ UNCHANGED last_spoken
  /\ w_text' = EMPTY
  /\ w_request' = EMPTY
  /\ post' = [post EXCEPT !.taken = FALSE]
  /\ wpc' = "get"
  /\ UNCHANGED <<notWorker, speech_queue, pending>>

speech_worker == W_get \/ W_check \/ W_speak

\* ----------------------------------------------------------- specification
Next ==
  \/ InitTTS \/ InitModels \/ StartThreads \/ Shutdown
  \/ camera_worker
  \/ detection_worker
  \/ speak
  \/ speech_worker

Spec == Init /\ [][Next]_vars

\* every started thread runs whenever it can; nothing obliges the user to
\* interrupt main (Shutdown)
FairLife ==
  /\ WF_vars(camera_worker)
  /\ WF_vars(detection_worker \/ speak)
  /\ WF_vars(speech_worker)

SpecLife == Init /\ [][Next]_vars /\ FairLife

\* ------------------------------------------------- video_feed.generate()
notFeed == <<mainVars, fpc, frame_queue, speech_queue, cpc, frame_count,
             last_frame_jpg, dpc, detLocals, detGlobals, detHist, workerVars,
             pending, post, obs>>

\* lines 593-604: a client requests /video_feed from the running server and
\* the server starts iterating generate()
G_connect(c) ==
  /\ fpc = "serving"
  /\ gpc[c] = "idle"
  /\ gpc' = [gpc EXCEPT ![c] = "loop"]
  /\ UNCHANGED <<notFeed, frame_lock>>

\* line 597: while running
G_loop(c) ==
  /\ gpc[c] = "loop"
  /\ gpc' = [gpc EXCEPT ![c] = IF running THEN "lock" ELSE "done"]
  /\ UNCHANGED <<notFeed, frame_lock>>

\* lines 598-601: with frame_lock: if a frame has been published the
\* generator yields it and is suspended inside the with block, holding the
\* lock; otherwise the block is left and the lock released
G_lock(c) ==
  /\ gpc[c] = "lock"
  /\ frame_lock = FREE
  /\ IF last_frame_jpg # <<>>
       THEN frame_lock' = c /\ gpc' = [gpc EXCEPT ![c] = "yield"]
       ELSE gpc' = [gpc EXCEPT ![c] = "sleep"] /\ UNCHANGED frame_lock
  /\ UNCHANGED notFeed

\* lines 599-602: the client has read the chunk and the server resumes the
\* generator, which leaves the with block and releases the lock
G_resume(c) ==
  /\ gpc[c] = "yield"
  /\ frame_lock' = FREE
  /\ gpc' = [gpc EXCEPT ![c] = "sleep"]
  /\ UNCHANGED notFeed

\* lines 598-601: the client has disconnected and the server closes the
\* generator: GeneratorExit is raised at the yield and the with block
\* releases the lock
G_close(c) ==
  /\ gpc[c] = "yield"
  /\ frame_lock' = FREE
  /\ gpc' = [gpc EXCEPT ![c] = "done"]
  /\ UNCHANGED notFeed

\* line 602: time.sleep(0.033)
G_sleep(c) ==
  /\ gpc[c] = "sleep"
  /\ gpc' = [gpc EXCEPT ![c] = "loop"]
  /\ UNCHANGED <<notFeed, frame_lock>>

generate(c) ==
  G_connect(c) \/ G_loop(c) \/ G_lock(c) \/ G_resume(c) \/ G_close(c) \/ G_sleep(c)

\* main, the capture loop and the video feed; the camera and the generators
\* run whenever they can, and a thread that keeps asking for frame_lock
\* gets it; nothing obliges a client to read (G_resume) or to leave (G_close)
NextFeed ==
  \/ InitTTS \/ InitModels \/ StartThreads \/ Shutdown
  \/ camera_worker \/ C_lock
  \/ \E c \in Clients : generate(c)

FairFeed ==
  /\ WF_vars(C_open \/ C_read \/ C_put)
  /\ SF_vars(C_lock)
  /\ \A c \in Clients : WF_vars(G_loop(c) \/ G_sleep(c)) /\ SF_vars(G_lock(c))

SpecFeed == Init /\ [][NextFeed]_vars /\ FairFeed

\* ------------------------------------------- the stability window alone
\* check_text_stability applied to every observation sequence up to MaxObs
Observe ==
  /\ Len(obs) < MaxObs
  /\ \E text \in OcrTexts :
       LET r == check_text_stability(ocr_text_buffer, text)
       IN /\ detected_text' = text
          /\ ocr_text_buffer' = r.buffer
          /\ stable_text' = r.result
          /\ obs' = Append(obs, text)
  /\ UNCHANGED <<mainVars, flaskVars, camVars, workerVars, frame_queue, speech_queue, dpc,
                 detected_objects, output, last_spoken_text,
                 ocr_mode_active, current_text, current_objects, current_audio,
                 detHist, pending, post>>

SpecWindow == Init /\ [][Observe]_vars

\* --------------------------------------------------- clean_ocr_text alone
\* detect_text line 213: the joined OCR fragments are passed through
\* clean_ocr_text; here the result is passed through it a second time
InitClean == \E text \in CleanInputs : InitState(text)

Clean ==
  /\ Len(obs) < 2
  /\ detected_text' = clean_ocr_text(detected_text)
  /\ obs' = Append(obs, detected_text)
  /\ UNCHANGED <<mainVars, flaskVars, camVars, workerVars, frame_queue, speech_queue, dpc,
                 stable_text, detected_objects, output, detGlobals,
                 detHist, pending, post>>

SpecClean == InitClean /\ [][Clean]_vars

\* ================================================================ claims
InSpeak == dpc \in {"speak_empty", "speak_get", "speak_put"}

\* C1: detect_objects is never invoked in a cycle whose stability check
\* returned a stable text, and whenever detect_objects is about to be invoked
\* the flag ocr_mode_active is false.
C1_ModeExclusive ==
  /\ dpc = "detect_objects" => (~ocr_mode_active /\ stable_text = EMPTY)
  /\ stable_text # EMPTY => ~cyc.objects

\* a cycle with stable text has run to its end without captioning
C1_Witness ==
  dpc = "sleep" /\ stable_text # EMPTY /\ ocr_mode_active /\ cyc.spoke /\ ~cyc.objects

\* C2: a cycle whose announcement candidate equals the candidate of the
\* cycle before it does not call tts.speak.
C2_NoRepeat ==
  (dpc = "sleep" /\ prev = Candidate(stable_text, detected_objects)) => ~cyc.spoke

\* two consecutive cycles with the same non-empty caption have completed
C2_Witness ==
  /\ dpc = "sleep" /\ prev = Candidate(stable_text, detected_objects)
  /\ stable_text = EMPTY /\ detected_objects = RED_CAR /\ ~cyc.spoke

\* C3: a cycle that starts in OCR mode, has no stable text and gets a caption
\* C that was announced before clears ocr_mode_active, resets
\* last_spoken_text to empty and enqueues C through tts.speak.
C3_Reannounced ==
  (/\ dpc = "sleep" /\ cyc.mode0 /\ stable_text = EMPTY
   /\ detected_objects # EMPTY /\ detected_objects \in announced)
  => (/\ ~ocr_mode_active /\ cyc.reset
      /\ cyc.spoke /\ cyc.enq
      /\ output = detected_objects /\ last_spoken_text = detected_objects)

\* the caption announced before OCR mode has come back on leaving it
C3_Witness ==
  /\ dpc = "sleep" /\ cyc.mode0 /\ stable_text = EMPTY
  /\ detected_objects = RED_CAR /\ RED_CAR \in announced /\ cyc.enq

\* C4 (as claimed): the first caption enqueued after leaving OCR mode, once
\* dequeued, is not skipped by the worker's own last_spoken comparison.
C4_NeverSwallowed ==
  ~(/\ wpc = "check" /\ post.taken
    /\ ~WorkerTooShort(w_text) /\ WorkerRepeats(w_text, last_spoken))

\* C5: after two completed calls of tts.speak with no dequeue in between,
\* exactly one request is pending and it is the second text.
C5_LastWriteWins ==
  (pending.puts = 2 /\ ~InSpeak) => speech_queue = <<pending.last>>

\* two requests were enqueued with no dequeue in between
C5_Witness ==
  pending.puts = 2 /\ dpc = "sleep" /\ speech_queue = <<pending.last>>

\* C6: the speech queue never holds more than one request, and the put of
\* tts.speak is never blocked.
C6_SingleSlot ==
  /\ Len(speech_queue) <= 1
  /\ dpc = "speak_put" => QueueCanPut(speech_queue, SPEECH_QUEUE_MAXSIZE)

\* a request is pending while the worker is handling an earlier one
C6_Witness ==
  Len(speech_queue) = 1 /\ wpc \in {"check", "speak"} /\ pending.puts = 1

\* C7: check_text_stability returns a non-empty text t exactly when the
\* window after the insertion holds OCR_STABILITY_FRAMES entries all equal to
\* t; in every other case it returns the empty text.
C7_StableIff ==
  obs # <<>> =>
    /\ \A t \in OcrTexts \ {EMPTY} :
         stable_text = t <=>
           /\ Len(ocr_text_buffer) = OCR_STABILITY_FRAMES
           /\ \A i \in 1..Len(ocr_text_buffer) : ocr_text_buffer[i] = t
    /\ stable_text \in OcrTexts

\* a text became stable after a differing observation
C7_Witness ==
  Len(obs) = 3 /\ obs[1] = LONG_TEXT /\ stable_text = STOP

\* C8: the window never holds more than OCR_STABILITY_FRAMES entries, and
\* holds the most recent observations in arrival order.
C8_WindowRecent ==
  LET n == Len(obs)
      k == Min(n, OCR_STABILITY_FRAMES)
  IN /\ Len(ocr_text_buffer) <= OCR_STABILITY_FRAMES
     /\ ocr_text_buffer = SubSeq(obs, n - k + 1, n)

\* two observations have been evicted
C8_Witness ==
  Len(obs) = OCR_STABILITY_FRAMES + 2 /\ obs[1] # obs[3] /\ obs[2] # obs[4]

\* C9 (as claimed): a stable OCR text is handed to speaker.Speak verbatim.
C9_Verbatim ==
  (wpc = "speak" /\ w_request \in OcrTexts) => w_text = w_request

\* C10: the frame queue never holds more than 2 frames, the put of the
\* capture loop is never blocked, and a step of the capture loop taken while
\* the queue is full leaves the queue as it is.
C10_FrameQueue ==
  /\ [](/\ Len(frame_queue) <= FRAME_QUEUE_MAXSIZE
        /\ cpc = "put" => QueueCanPut(frame_queue, FRAME_QUEUE_MAXSIZE))
  /\ [][(/\ Len(frame_queue) >= FRAME_QUEUE_MAXSIZE
         /\ (cpc' # cpc \/ frame_count' # frame_count))
        => frame_queue' = frame_queue]_vars

\* a frame was captured and dropped while two frames were queued
C10_Witness ==
  /\ Len(frame_queue) = FRAME_QUEUE_MAXSIZE /\ cpc = "read"
  /\ frame_queue[FRAME_QUEUE_MAXSIZE] # frame_count

\* C11 (as claimed): neither the capture loop nor a video_feed generator
\* waits for frame_lock forever.
C11_NoIndefiniteWait ==
  /\ (cpc = "lock") ~> (cpc # "lock")
  /\ \A c \in Clients : (gpc[c] = "lock") ~> (gpc[c] # "lock")

\* C12 (as claimed): once shutdown has been requested (running is False and
\* tts.stop() was called) the capture loop, the detection loop, the speech
\* worker loop and the Flask thread all terminate.
C12_AllTerminate ==
  (mpc = "stopped") ~> (/\ cpc \in {"done", "failed"}
                        /\ dpc = "done"
                        /\ wpc = "done"
                        /\ fpc = "done")

\* C13 (as claimed): once an initialization has failed (main returned at
\* lines 622-634, or the camera did not open) no capture, detection, speech
\* or presentation worker is running.
C13_AbortLeavesNothing ==
  (mpc = "aborted" \/ cpc = "failed")
  => (/\ cpc \in {"idle", "done", "failed"}
      /\ dpc \in {"idle", "done"}
      /\ wpc \in {"idle", "done"}
      /\ fpc = "idle")

\* C14: the step that follows a call of speaker.Speak takes the worker back
\* to its get, whether the call returned or raised, and last_spoken is then
\* the spoken text (it returned) or what it was (it raised); the worker
\* leaves its loop only when TTSEngine.running is false.
C14_SurvivesFailure ==
  /\ [][(wpc = "speak" /\ wpc' # "speak")
        => (wpc' = "get" /\ last_spoken' \in {last_spoken, w_text})]_vars
  /\ [](wpc = "done" => ~tts_running)

\* The first utterance failed and the worker is back at its get with a
\* later request waiting: one put since the last dequeue while two requests
\* were enqueued means the worker dequeued one; with last_spoken empty that
\* request passed the checks of lines 87-91, and last_spoken still empty
\* means speaker.Speak raised on it.
C14_Witness ==
  /\ wpc = "get" /\ tts_running /\ last_spoken = EMPTY
  /\ RED_CAR \in announced
  /\ speech_queue = <<STOP>> /\ pending = [puts |-> 1, last |-> STOP]

\* C15 (as claimed): from the initial state, two frames reading "STOP" give
\* the stable text "STOP" and exactly one enqueue of "STOP", and
\* detect_objects is invoked in neither of the two cycles.
C15_TwoStops ==
  (dpc = "sleep" /\ cycles = 1 /\ ocr_text_buffer = <<STOP, STOP>>)
  => (/\ stable_text = STOP
      /\ cyc.enq /\ output = STOP
      /\ ~(first[1].enq /\ first[2] = STOP)
      /\ ~first[1].objects /\ ~cyc.objects)

\* C15 (amended): from the initial state, two frames reading "STOP" give the
\* stable text "STOP" in the second cycle and exactly one enqueue of "STOP";
\* detect_objects is invoked in the first cycle, where the window is not yet
\* full, and is not invoked in the second.
C15_TwoStopsSecondCycle ==
  (dpc = "sleep" /\ cycles = 1 /\ ocr_text_buffer = <<STOP, STOP>>)
  => (/\ stable_text = STOP
      /\ cyc.enq /\ output = STOP
      /\ ~(first[1].enq /\ first[2] = STOP)
      /\ first[1].objects /\ ~cyc.objects)

\* the second "STOP" cycle has ended after a first cycle that announced a
\* caption
C15_Witness ==
  /\ dpc = "sleep" /\ cycles = 1 /\ ocr_text_buffer = <<STOP, STOP>>
  /\ cyc.enq /\ first[1].enq /\ first[2] = RED_CAR

C19_NoRepeatUtterance ==
  wpc = "speak" => w_text # last_spoken

C20_DisplaysAgree ==
  dpc \in {"get", "done"} =>
    IF prev[1] = "none"
      THEN ~ocr_mode_active
      ELSE LET raw == ocr_text_buffer[Len(ocr_text_buffer)]
           IN /\ ocr_mode_active <=> prev[1] = "text"
              /\ current_objects = PAUSED <=> ocr_mode_active
              /\ ~ocr_mode_active =>
                   current_objects = IF prev[2] # EMPTY THEN prev[2] ELSE NO_OBJECTS
              /\ current_text = IF raw # EMPTY THEN raw ELSE NO_TEXT
              /\ current_text # EMPTY

\* a text cycle has completed and the displays show it
C20_Witness ==
  /\ dpc = "get" /\ prev = <<"text", STOP>>
  /\ ocr_mode_active /\ current_objects = PAUSED /\ current_text = STOP

\* C17: clean_ocr_text is idempotent: cleaning a cleaned string gives the
\* cleaned string again (obs holds the input and its cleaned form,
\* detected_text the twice-cleaned form).
C17_Idempotent ==
  Len(obs) = 2 => detected_text = obs[2]

\* a string that the first cleaning changed, in its characters and in its
\* words, has been cleaned twice
C17_Witness ==
  /\ Len(obs) = 2 /\ obs[2] # EMPTY
  /\ Len(obs[2]) < Len(RemoveSpecial(obs[1]))
  /\ RemoveSpecial(obs[1]) # obs[1]

\* C21 (as claimed): a cycle that records a string as last_spoken_text and
\* shows it as current_audio has placed that string in the speech queue by
\* the time it ends.
C21_RecordedMeansEnqueued ==
  (dpc = "sleep" /\ cyc.spoke)
  => (cyc.enq /\ last_spoken_text = output /\ current_audio = output)

====
